---------------------------- MODULE Spec2Model ----------------------------
(***************************************************************************)
(* A model of the quiz application's client-side orchestration logic:      *)
(*   - the template store and the rotation selector                        *)
(*     (storeQuizTemplate, generateQuizFromTemplate,                       *)
(*      resetQuizQuestionHistory in quizTemplateService),                  *)
(*   - the rate-limit backoff invoker (withRateLimitRetry in openai.js),   *)
(*   - the quiz runner (Quiz.jsx) and the attempt record written on        *)
(*     completion (onQuizComplete in App.jsx),                             *)
(*   - two storeQuizTemplate calls racing for one document,                *)
(*   - quiz generation (generateQuizFromPDF in App.jsx and                 *)
(*     generateQuizQuestions in openai.js): the batches of chunk requests, *)
(*     deduplication, the template write and the choice of the quiz,       *)
(*   - the deduplication and chunkText as functions of their inputs,       *)
(*   - the background processing queue (queuePDFForProcessing and          *)
(*     processNextPDF).                                                    *)
(*                                                                         *)
(* Apart from the background queue, one document (pdf_id) is modelled:     *)
(* every other piece of state the code keeps is keyed by the document id,  *)
(* so documents do not interact.                                           *)
(* JavaScript arrays are 0-based; sequences here are 1-based, so the       *)
(* element at JavaScript index i is seq[i + 1].                            *)
(***************************************************************************)
EXTENDS Integers, Sequences, FiniteSets

(***************************************************************************)
(* Bounds of the model.                                                    *)
(***************************************************************************)
\* Largest number of questions a stored template holds.
MaxQuestions == 4
\* Largest `count` requested from generateQuizFromTemplate.
MaxCount == 3
\* Largest maxRetries handed to withRateLimitRetry.
MaxRetriesBound == 3
\* Largest number of questions in the quiz handed to the Quiz component.
MaxQuizQuestions == 2
\* Largest number of chunks selected for question generation.
MaxChunks == 3
\* Longest list of questions handed to the deduplication on its own.
MaxListLen == 3
\* Longest text handed to chunkText, in characters.
MaxTextLen == 5
\* Largest maxChunkSize handed to chunkText, in characters.
MaxBudget == 3
\* Largest number of documents queued for background processing.
MaxPdfs == 2
\* Largest number of jobs the background queue accepts in one run.
MaxJobs == 3

VARIABLES
    \* ---- template store and rotation selector ----
    template,       \* the quiz_templates row of the document: [n |-> number of questions]
                    \* (n = 0: no row).  Question i of the template is Question(i).
    count,          \* the `count` argument the callers pass (10 in openai.js:1462)
    localStorage,   \* the entry quiz_used_indices_<pdf_id>: [present, indices]
    storageKind,    \* what reading that entry gives: a "list", an "unreadable"
                    \* text, a "nonlist" value, or localStorage is "unavailable"
    quizResult,     \* what the last generateQuizFromTemplate call returned (or that it threw)
    served,         \* history: how often each template index was served since the
                    \* rotation state was last cleared by resetQuizQuestionHistory
    calls,          \* history: the number of generateQuizFromTemplate calls since then
                    \* (it stops at MaxQuestions calls, which cover any template)
    storeResult,    \* what the last storeQuizTemplate call returned
    lastOp,         \* history: the operation that ran last
    \* ---- withRateLimitRetry (one invocation) ----
    maxRetries,     \* the maxRetries argument
    initialDelay,   \* the initialDelay argument, in ms
    retryCount,     \* let retryCount
    lastError,      \* let lastError: "null", "rate_limit" (status 429) or "other"
    delay,          \* let delay, in DelayUnit-ths of a millisecond
    retryPc,        \* where the invocation is: "calling" apiCallFn, "waiting" for
                    \* the timer, or ended: "returned" / "thrown"
    apiCalls,       \* history: the number of apiCallFn() calls made
    waited,         \* history: the delays handed to setTimeout, in order
    \* ---- App (view "quiz" / "result") and the Quiz component ----
    view,           \* App: const [view, setView]
    quiz,           \* App: const [quiz, setQuiz], the quizData prop of Quiz
    appScore,       \* App: const [score, setScore]
    quizCompleted,  \* App: const [quizCompleted, setQuizCompleted]
    pendingResult,  \* App state updates queued from an effect, not yet rendered
    currentQuestionIndex,   \* Quiz: useState(0)
    score,          \* Quiz: useState(0)
    selectedAnswer, \* Quiz: useState(null), "null" or the chosen option's text
    timeLeft,       \* Quiz: useState(60)
    saveCalls,      \* history: the number of saveQuizResult calls
    inFlight,       \* the inserts of saveQuizResult not yet settled
    quizzes,        \* the rows of the "quizzes" table
    \* ---- concurrent storeQuizTemplate calls for one document ----
    callers,        \* per call: where it is, what its select saw, what it returned
    templateRows,   \* the rows of "quiz_templates" for the document
    \* ---- generateQuizFromPDF / generateQuizQuestions (one run) ----
    forceRefresh,   \* the forceRefresh argument
    genPc,          \* "start", "batch" (awaiting Promise.all), "delay" (the timer
                    \* between batches) or "returned"
    chunksToUse,    \* the number of chunks selected for generation
    batchStart,     \* the loop variable i of the batch loop
    chunkStatus,    \* per chunk: "unrequested", "inFlight", or how it settled
    chunkQuestions, \* per chunk: the questions its request contributed
    requested,      \* history: per chunk, the number of requests started
    delaysElapsed,  \* history: the number of inter-batch delays waited
    allQuestions,   \* let allQuestions
    storedQuestions,    \* history: the question list written to the template row
    genResult,      \* what generateQuizQuestions returned
    appFailed,       \* generateQuizFromPDF reported failure and returned null
    \* ---- the deduplication of generateQuizQuestions, applied on its own ----
    dedupeInput,    \* the list of questions handed in (allQuestions)
    dedupeOnce,     \* uniqueQuestions of the first application
    dedupeTwice,    \* uniqueQuestions of an application to dedupeOnce
    dedupePasses,   \* the number of applications made
    \* ---- chunkText (one call) ----
    chunkInput,     \* the text argument, a sequence of characters
    maxChunkSize,   \* the maxChunkSize argument
    chunks,         \* the returned chunks
    chunkPc,        \* "idle", "called" or "returned"
    \* ---- background processing of uploaded documents ----
    processingQueue,    \* const processingQueue: the pdfIds of the queued items
    isProcessing,       \* let isProcessing
    drains,         \* the processNextPDF invocations that wait at an await:
                    \* [pdfId, pc, generated]
    pdfStatus,      \* processing_status of each row of "pdfs"
    lost,           \* history: the last update of the row's status failed
    accepted,       \* history: the pdfIds pushed to the queue, in order
    taken,          \* history: the pdfIds shifted from the queue, in order
    finished        \* history: the number of jobs whose last status update settled

rotationVars ==
    <<template, count, localStorage, storageKind, quizResult, served, calls, storeResult,
      lastOp>>

retryVars ==
    <<maxRetries, initialDelay, retryCount, lastError, delay, retryPc, apiCalls, waited>>

quizVars ==
    <<view, quiz, appScore, quizCompleted, pendingResult, currentQuestionIndex,
      score, selectedAnswer, timeLeft, saveCalls, inFlight, quizzes>>

raceVars == <<callers, templateRows>>

genVars ==
    <<forceRefresh, genPc, chunksToUse, batchStart, chunkStatus, chunkQuestions,
      requested, delaysElapsed, allQuestions, storedQuestions, genResult, appFailed>>

dedupeVars == <<dedupeInput, dedupeOnce, dedupeTwice, dedupePasses>>

chunkerVars == <<chunkInput, maxChunkSize, chunks, chunkPc>>

pureVars == <<dedupeVars, chunkerVars>>

queueVars ==
    <<processingQueue, isProcessing, drains, pdfStatus, lost, accepted, taken, finished>>

vars == <<rotationVars, retryVars, quizVars, raceVars, genVars, pureVars, queueVars>>

\* The variables of the other parts, which a part leaves alone.
OutsideRotation == <<retryVars, quizVars, raceVars, genVars, pureVars, queueVars>>
OutsideRetry == <<rotationVars, quizVars, raceVars, genVars, pureVars, queueVars>>
OutsideQuiz == <<rotationVars, retryVars, raceVars, genVars, pureVars, queueVars>>
OutsideRace == <<rotationVars, retryVars, quizVars, genVars, pureVars, queueVars>>
OutsideGeneration == <<retryVars, raceVars, pureVars, queueVars>>
OutsideDedupe == <<rotationVars, retryVars, quizVars, raceVars, genVars, chunkerVars, queueVars>>
OutsideChunker == <<rotationVars, retryVars, quizVars, raceVars, genVars, dedupeVars, queueVars>>
OutsideQueue == <<rotationVars, retryVars, quizVars, raceVars, genVars, pureVars>>

(***************************************************************************)
(* Helpers on sets and sequences.                                          *)
(***************************************************************************)
Min(a, b) == IF a <= b THEN a ELSE b

Range(s) == {s[k] : k \in 1 .. Len(s)}

\* The injective sequences of length m over S: the first m elements of a
\* permutation of S, for every permutation.
RECURSIVE Arrangements(_, _)
Arrangements(S, m) ==
    IF m = 0 THEN {<< >>}
    ELSE UNION {{Append(a, x) : x \in S \ Range(a)} : a \in Arrangements(S, m - 1)}

SetMin(S) == CHOOSE x \in S : \A y \in S : x <= y

RECURSIVE Ascending(_)
Ascending(S) ==
    IF S = {} THEN << >>
    ELSE LET m == SetMin(S) IN <<m>> \o Ascending(S \ {m})


(***************************************************************************)
(* Template store and rotation selector (quizTemplateService).             *)
(***************************************************************************)
NoIndex == 0 - 1

\* Question i of the stored template, as read from the row (no metadata yet).
Question(i) == [qid |-> i, templateIndex |-> NoIndex]

\* template.questions of a row with n questions.
TemplateQuestions(n) == [k \in 1 .. n |-> Question(k - 1)]

\* [...Array(allQuestions.length).keys()]
AllIndices(n) == 0 .. (n - 1)

\* localStorage.getItem + JSON.parse; a missing item leaves previouslyUsedIndices = [].
\* The stored array never holds duplicates (it is written from a Set) and its
\* order is only ever read through a random sort, so it is held as a set.
LoadUsedIndices(ls) == IF ls.present THEN ls.indices ELSE {}

\* What the entry can hold and whether it can be read at all: the JSON of a
\* list (what the selector writes), a text JSON.parse rejects, the JSON of
\* a value that is no list (null, a number, an object), or no localStorage.
StorageKinds == {"list", "unreadable", "nonlist", "unavailable"}

\* previouslyUsedIndices after the try block, where it is a list: a failed
\* read or parse is caught and leaves [].
PreviouslyUsedIndices ==
    IF storageKind = "list" THEN LoadUsedIndices(localStorage) ELSE {}

\* JSON.parse gave a value without an includes method, and
\* allIndices.filter(index => !previouslyUsedIndices.includes(index))
\* throws a TypeError.
FilterThrows == storageKind = "nonlist"

\* allIndices.filter(index => !previouslyUsedIndices.includes(index))
AvailableIndicesAll(n, used) == AllIndices(n)
AvailableIndices(n, used) == {i \in AllIndices(n) : i \notin used}

\* availableIndices.length < count * 0.5
NeedsResetAlways(nAvailable, c) == TRUE
NeedsReset(nAvailable, c) == 2 * nAvailable < c

\* previouslyUsedIndices.sort(() => Math.random() - 0.5).slice(0, neededExtra):
\* the first neededExtra elements of some permutation of the used indices.
ShuffledUsedSliceWhole(used, neededExtra) ==
    Arrangements(used, Cardinality(used))
ShuffledUsedSlice(used, neededExtra) ==
    Arrangements(used, Min(neededExtra, Cardinality(used)))

\* The candidate lists the code can hold in availableIndices before the shuffle,
\* each with the previouslyUsedIndices it goes on with and the branch taken.
Candidates(n, c, used) ==
    LET avail == AvailableIndices(n, used)
        k     == Cardinality(avail)
    IN  IF k >= c
        THEN {[list |-> Ascending(avail), used |-> used, branch |-> "fresh"]}
        ELSE IF NeedsReset(k, c)
        THEN {[list |-> Ascending(AllIndices(n)), used |-> {}, branch |-> "reset"]}
        ELSE {[list |-> Ascending(avail) \o extra, used |-> used, branch |-> "topup"] :
                  extra \in ShuffledUsedSlice(used, c - k)}

\* Fisher-Yates over a copy of the list, then indices.slice(0, count): the first
\* `count` elements of some permutation of the list.
FisherYatesSliceBiased(list, c) ==
    LET m == Min(c, Len(list))
    IN  {[k \in 1 .. m |-> list[p[k]]] : p \in [1 .. m -> 1 .. Len(list)]}
FisherYatesSlice(list, c) ==
    LET m == Min(c, Len(list))
    IN  {[k \in 1 .. m |-> list[p[k]]] : p \in Arrangements(1 .. Len(list), m)}

\* The return value when allQuestions.length <= count: every question, in
\* template order, with selectedIndices [0, 1, ..., n-1] and no metadata.
AllQuestionsResultShuffled(n, used) ==
    {[status |-> "ok", branch |-> "all",
      questions |-> [k \in 1 .. n |-> Question(p[k])],
      selectedIndices |-> p,
      templateSelectedIndices |-> << >>, hasMetadata |-> FALSE,
      previouslyUsed |-> used, templateSize |-> n] :
        p \in Arrangements(AllIndices(n), n)}
AllQuestionsResult(n, used) ==
    {[status |-> "ok", branch |-> "all",
      questions |-> TemplateQuestions(n),
      selectedIndices |-> [k \in 1 .. n |-> k - 1],
      templateSelectedIndices |-> << >>, hasMetadata |-> FALSE,
      previouslyUsed |-> used, templateSize |-> n]}

\* The return value of the rotation branch for the selection sel: the selected
\* questions tagged with metadata.templateIndex, UI indices 0..count-1, and the
\* template indices in metadata.  selectedIndices.map(index => allQuestions[index])
\* yields undefined for an index outside the template, and the forEach that
\* writes question.metadata then throws a TypeError.
RotationResult(n, used, branch, sel) ==
    IF \A k \in 1 .. Len(sel) : sel[k] \in AllIndices(n)
    THEN [status |-> "ok", branch |-> branch,
          questions |-> [k \in 1 .. Len(sel) |-> [qid |-> sel[k], templateIndex |-> sel[k]]],
          selectedIndices |-> [k \in 1 .. Len(sel) |-> k - 1],
          templateSelectedIndices |-> sel, hasMetadata |-> TRUE,
          previouslyUsed |-> used, templateSize |-> n]
    ELSE [status |-> "threw", branch |-> branch,
          questions |-> << >>, selectedIndices |-> << >>,
          templateSelectedIndices |-> sel, hasMetadata |-> FALSE,
          previouslyUsed |-> used, templateSize |-> n]

NoResult ==
    [status |-> "none", branch |-> "none", questions |-> << >>,
     selectedIndices |-> << >>, templateSelectedIndices |-> << >>,
     hasMetadata |-> FALSE, previouslyUsed |-> {}, templateSize |-> 0]

ThrewNoTemplate == [NoResult EXCEPT !.status = "threw"]

\* The TypeError of the filter over a stored value that is no list, which
\* the catch block of generateQuizFromTemplate throws on.
ThrewOnStoredValue == [NoResult EXCEPT !.status = "threw", !.branch = "filter"]

\* History: no index has been served yet.
NotServed == [i \in AllIndices(MaxQuestions) |-> 0]

\* History bookkeeping: the indices of sel have been served once more.  The
\* count stops at 3, a second repeat: no claim tells a third repeat from it.
Serve(sv, sel) ==
    [i \in DOMAIN sv |-> IF i \in Range(sel) THEN Min(sv[i] + 1, 3) ELSE sv[i]]

\* The template indices of the questions a returned quiz presents.
ServedBy(result) ==
    IF result.status # "ok" THEN << >>
    ELSE IF result.hasMetadata THEN result.templateSelectedIndices
    ELSE result.selectedIndices

\* The history is kept for this step / is not kept in this specification.
RecordServed ==
    /\ served' = Serve(served, ServedBy(quizResult'))
    /\ calls' = Min(calls + 1, MaxQuestions)
ForgetServed == served' = NotServed /\ calls' = 0
KeepServed == UNCHANGED <<served, calls>>

\* The question candidates handed to storeQuizTemplate.
GoodCandidate == [hasText |-> TRUE, nOptions |-> 4, hasAnswer |-> TRUE]
FewOptionsCandidate == [hasText |-> TRUE, nOptions |-> 1, hasAnswer |-> TRUE]
Candidate == {GoodCandidate, FewOptionsCandidate}

\* The filter of storeQuizTemplate: question text, at least 2 options, and an
\* answer (or correctAnswer) property.
IsValidQuestion(q) == q.hasText /\ q.nOptions >= 2 /\ q.hasAnswer

ValidatedQuestions(questions) == SelectSeq(questions, IsValidQuestion)

NotStored == [status |-> "none", n |-> 0]

\* storeQuizTemplate(pdf_id, questions): validate, then update the document's
\* row or insert one.  An empty list, a list with no valid question and any
\* storage error end in the catch block, which returns {error}.  Nothing in
\* it touches localStorage.
\* storeQuizTemplate, had it written whatever passes validation.
StoreOutcomeUnchecked(questions, storageOk) ==
    IF ~storageOk
    THEN [status |-> "error", n |-> 0]
    ELSE [status |-> "stored", n |-> Len(SelectSeq(questions, LAMBDA q : q.hasText /\ q.nOptions >= 2 /\ q.hasAnswer))]

\* What storeQuizTemplate returns for the questions handed in: the stored
\* row, or the {error, pdfId} object of its catch block.
StoreOutcome(questions, storageOk) ==
    LET validated == ValidatedQuestions(questions)
    IN  IF Len(questions) = 0 \/ Len(validated) = 0 \/ ~storageOk
        THEN [status |-> "error", n |-> 0]
        ELSE [status |-> "stored", n |-> Len(validated)]

StoreQuizTemplate ==
    /\ \E questions \in UNION {[1 .. len -> Candidate] : len \in 0 .. MaxQuestions} :
       \E storageOk \in BOOLEAN :
          /\ storeResult' = StoreOutcome(questions, storageOk)
          /\ IF storeResult'.status = "stored"
             THEN template' = [n |-> storeResult'.n]
             ELSE UNCHANGED template
    /\ lastOp' = "store"
    /\ UNCHANGED <<count, localStorage, storageKind, quizResult>>

\* generateQuizFromTemplate(pdf_id, count) when no usable template row exists.
GenerateQuizNoTemplate ==
    /\ template.n = 0
    /\ quizResult' = ThrewNoTemplate
    /\ lastOp' = "generate"
    /\ UNCHANGED <<template, count, localStorage, storageKind, storeResult>>

\* generateQuizFromTemplate(pdf_id, count) when the template is not larger than count.
GenerateQuizAll ==
    /\ template.n > 0
    /\ template.n <= count
    /\ quizResult' \in AllQuestionsResult(template.n, PreviouslyUsedIndices)
    /\ lastOp' = "generate"
    /\ UNCHANGED <<template, count, localStorage, storageKind, storeResult>>

\* generateQuizFromTemplate(pdf_id, count) when the template is larger than count:
\* load the used indices, build the candidates, shuffle, slice, store the union.
GenerateQuizRotation ==
    /\ template.n > count
    /\ IF FilterThrows
       THEN /\ quizResult' = ThrewOnStoredValue
            /\ UNCHANGED <<localStorage, storageKind>>
       ELSE \E cand \in Candidates(template.n, count, PreviouslyUsedIndices) :
            \E sel \in FisherYatesSlice(cand.list, count) :
               /\ IF storageKind = "unavailable"
                  THEN UNCHANGED <<localStorage, storageKind>>
                  ELSE /\ localStorage' =
                            [present |-> TRUE, indices |-> cand.used \cup Range(sel)]
                       /\ storageKind' = "list"
               /\ quizResult' = RotationResult(template.n, PreviouslyUsedIndices,
                                               cand.branch, sel)
    /\ lastOp' = "generate"
    /\ UNCHANGED <<template, count, storeResult>>

\* resetQuizQuestionHistory(pdf_id): localStorage.removeItem.
ResetQuizQuestionHistory ==
    /\ IF storageKind = "unavailable"
       THEN UNCHANGED <<localStorage, storageKind>>
       ELSE /\ localStorage' = [present |-> FALSE, indices |-> {}]
            /\ storageKind' = "list"
    /\ lastOp' = "reset"
    /\ UNCHANGED <<template, count, quizResult, storeResult>>

\* The state before any call, given the template row and the count.
RotationStart(n, c) ==
    /\ template = [n |-> n]
    /\ count = c
    /\ localStorage = [present |-> FALSE, indices |-> {}]
    /\ storageKind = "list"
    /\ quizResult = NoResult
    /\ served = NotServed
    /\ calls = 0
    /\ storeResult = NotStored
    /\ lastOp = "none"

\* generateQuizQuestions has returned nothing yet.
NoGenResult ==
    [status |-> "none", questions |-> << >>, selectedIndices |-> << >>,
     templateId |-> FALSE, warning |-> FALSE]

\* No generation run is modelled.
GenIdle ==
    /\ forceRefresh = FALSE
    /\ genPc = "none"
    /\ chunksToUse = 0
    /\ batchStart = 0
    /\ chunkStatus = << >>
    /\ chunkQuestions = << >>
    /\ requested = << >>
    /\ delaysElapsed = 0
    /\ allQuestions = << >>
    /\ storedQuestions = << >>
    /\ genResult = NoGenResult
    /\ appFailed = FALSE

\* No deduplication was applied on its own and chunkText was not called.
DedupeIdle ==
    /\ dedupeInput = << >>
    /\ dedupeOnce = << >>
    /\ dedupeTwice = << >>
    /\ dedupePasses = 0

ChunkerIdle ==
    /\ chunkInput = << >>
    /\ maxChunkSize = 0
    /\ chunks = << >>
    /\ chunkPc = "idle"

PureIdle == DedupeIdle /\ ChunkerIdle

\* The documents whose processing can be queued.
PdfIds == 1 .. MaxPdfs

\* The background module as loaded: nothing queued, no processor running,
\* no row with a processing status.
QueueIdle ==
    /\ processingQueue = << >>
    /\ isProcessing = FALSE
    /\ drains = << >>
    /\ pdfStatus = [p \in PdfIds |-> "none"]
    /\ lost = [p \in PdfIds |-> FALSE]
    /\ accepted = << >>
    /\ taken = << >>
    /\ finished = 0

\* No concurrent calls are modelled.
RaceIdle ==
    /\ callers = << >>
    /\ templateRows = << >>

\* No updates of App are queued.
NothingPending == [scheduled |-> FALSE, score |-> 0]

\* No quiz is shown: the state of the variables in the other specifications.
QuizIdle ==
    /\ view = "dashboard"
    /\ quiz = [questions |-> << >>, selectedIndices |-> << >>,
               hasMetadata |-> FALSE, templateSelectedIndices |-> << >>]
    /\ appScore = 0
    /\ quizCompleted = FALSE
    /\ pendingResult = NothingPending
    /\ currentQuestionIndex = 0
    /\ score = 0
    /\ selectedAnswer = "null"
    /\ timeLeft = 0
    /\ saveCalls = 0
    /\ inFlight = << >>
    /\ quizzes = << >>

(***************************************************************************)
(* The backoff invoker: withRateLimitRetry (openai.js).                    *)
(***************************************************************************)
\* Math.min(delay * 2, 60000): the cap, in ms.
MaxDelayMs == 60000

\* Delays are held in units of 1/625 ms: with the jitter factors below and
\* initial delays that are multiples of 1000 ms, every product the code
\* computes in floating point is then a whole number of units for at least
\* seven retries.
DelayUnit == 5 * 5 * 5 * 5

Ms(x) == x * DelayUnit

\* 0.8 + Math.random() * 0.4 lies in [0.8, 1.2); the factors taken, in tenths.
JitterTenths == {8, 9, 10, 11}

\* The initialDelay arguments taken, in ms (1000 is the default, 2000 is what
\* the chunk requests of generateQuizQuestions pass).
InitialDelays == {1000, 2000, 25000}

\* delay = Math.min(delay * 2, 60000) * (0.8 + Math.random() * 0.4)
BackoffNoDoubling(d, jitter) == (Min(d, Ms(MaxDelayMs)) \div 10) * jitter
Backoff(d, jitter) == (Min(d * 2, Ms(MaxDelayMs)) \div 10) * jitter

\* error.status === 429
IsRateLimitAny(error) == TRUE
IsRateLimit(error) == error = "rate_limit"

\* retryCount > maxRetries
ExhaustedOneEarly(rc, mr) == rc >= mr
Exhausted(rc, mr) == rc > mr

\* No invocation is modelled: the state of the variables in the other
\* specifications.
RetryIdle ==
    /\ maxRetries = 0
    /\ initialDelay = 0
    /\ retryCount = 0
    /\ lastError = "null"
    /\ delay = 0
    /\ retryPc = "idle"
    /\ apiCalls = 0
    /\ waited = << >>

\* The loop is entered: while (retryCount <= maxRetries).
InLoop == retryPc = "calling" /\ retryCount <= maxRetries

\* apiCallFn() resolves: return await apiCallFn().
OpSucceeds ==
    /\ InLoop
    /\ apiCalls' = apiCalls + 1
    /\ retryPc' = "returned"
    /\ UNCHANGED <<maxRetries, initialDelay, retryCount, lastError, delay, waited>>

\* apiCallFn() rejects with the error: the catch block.
OpFails(error) ==
    /\ InLoop
    /\ apiCalls' = apiCalls + 1
    /\ lastError' = error
    /\ IF IsRateLimit(error)
       THEN /\ retryCount' = retryCount + 1
            /\ IF Exhausted(retryCount', maxRetries)
               THEN \* break, then throw lastError
                    /\ retryPc' = "thrown"
                    /\ UNCHANGED <<delay, waited>>
               ELSE /\ \E jitter \in JitterTenths : delay' = Backoff(delay, jitter)
                    /\ waited' = Append(waited, delay')
                    /\ retryPc' = "waiting"
       ELSE \* throw error
            /\ retryPc' = "thrown"
            /\ UNCHANGED <<retryCount, delay, waited>>
    /\ UNCHANGED <<maxRetries, initialDelay>>

OpRateLimited == OpFails("rate_limit")

OpFailsOtherwise == OpFails("other")

\* The setTimeout of the backoff fires and the loop goes round.
TimerFires ==
    /\ retryPc = "waiting"
    /\ retryPc' = "calling"
    /\ UNCHANGED <<maxRetries, initialDelay, retryCount, lastError, delay, apiCalls, waited>>

InitRetry ==
    /\ maxRetries \in 0 .. MaxRetriesBound
    /\ initialDelay \in InitialDelays
    /\ retryCount = 0
    /\ lastError = "null"
    /\ delay = Ms(initialDelay)
    /\ retryPc = "calling"
    /\ apiCalls = 0
    /\ waited = << >>
    /\ RotationStart(0, 1)
    /\ QuizIdle
    /\ RaceIdle
    /\ GenIdle
    /\ PureIdle
    /\ QueueIdle

NextRetry ==
    \/ OpSucceeds /\ UNCHANGED OutsideRetry
    \/ OpRateLimited /\ UNCHANGED OutsideRetry
    \/ OpFailsOtherwise /\ UNCHANGED OutsideRetry
    \/ TimerFires /\ UNCHANGED OutsideRetry

\* One invocation of withRateLimitRetry.
SpecRetry == InitRetry /\ [][NextRetry]_vars

\* The same, where a pending API call settles and a set timer fires.
SpecRetryFair == SpecRetry /\ WF_vars(NextRetry)

RetryEnded == retryPc \in {"returned", "thrown"}

\* C6: an operation that fails with 429 on every call is called exactly
\* maxRetries + 1 times, the invoker then throws that rate-limit error, and
\* the invocation always ends.
C6_ExhaustsAfterMaxRetriesPlusOne ==
    /\ [](/\ apiCalls <= maxRetries + 1
          /\ (retryPc = "thrown" /\ lastError = "rate_limit") => apiCalls = maxRetries + 1
          /\ (retryCount = maxRetries + 1) => (retryPc = "thrown" /\ lastError = "rate_limit"))
    /\ <>RetryEnded

\* The invoker gave up on an operation that was rate-limited every time.
C6_Witness ==
    /\ maxRetries >= 2
    /\ retryPc = "thrown"
    /\ lastError = "rate_limit"
    /\ apiCalls = maxRetries + 1

\* C7: an error that is no rate-limit signal is rethrown at once: the
\* operation is not called again and no delay is waited for it, whatever
\* number of rate-limit retries came before.
C7_OtherErrorsPropagateAtOnce ==
    lastError = "other" =>
        /\ retryPc = "thrown"
        /\ apiCalls = retryCount + 1
        /\ Len(waited) = retryCount

\* Another error after two rate-limit retries.
C7_Witness ==
    /\ lastError = "other"
    /\ retryPc = "thrown"
    /\ retryCount = 2

\* C8: before the 60000 ms cap is reached (twice the previous wait is still
\* within it), each waited delay is strictly larger than the one before, for
\* every jitter factor.
C8_DelaysIncreaseBelowCap ==
    \A k \in 1 .. Len(waited) - 1 :
        2 * waited[k] <= Ms(MaxDelayMs) => waited[k + 1] > waited[k]

\* Three waits, the first two below the cap.
C8_Witness ==
    /\ Len(waited) >= 3
    /\ 2 * waited[2] <= Ms(MaxDelayMs)
    /\ waited[3] > waited[2]

\* initialDelay * 2^e
RECURSIVE Doubled(_, _)
Doubled(d, e) == IF e = 0 THEN d ELSE Doubled(2 * d, e - 1)

\* C9: the k-th wait is the un-jittered base delay min(initialDelay * 2^(k-1),
\* 60000) times a jitter factor: the first retry waits initialDelay times
\* jitter, the delay doubles only after the wait, and no jitter is carried.
C9_WaitsBaseDelayThenDoubles ==
    \A k \in 1 .. Len(waited) :
        \E jitter \in JitterTenths :
            waited[k] = (Min(Doubled(Ms(initialDelay), k - 1), Ms(MaxDelayMs)) \div 10) * jitter


(***************************************************************************)
(* The quiz runner: the Quiz component (Quiz.jsx), App's onQuizComplete    *)
(* (App.jsx) and saveQuizResult.  A click handler's state updates are      *)
(* rendered before the next event; the updates made from an effect are     *)
(* queued and rendered in a later task, and events can come in between.    *)
(* The document id is present throughout.                                  *)
(***************************************************************************)
\* useState(60): the seconds given to a question.
TimerSeconds == 60

\* total_questions: 10 in the quizData of onQuizComplete.
SavedTotalQuestions == 10

\* The texts of a question's options.
AnswerOptions == <<"A", "B">>

\* A question of the quiz: its options and the 0-based index of the right one.
QuizQuestion(answer) == [options |-> AnswerOptions, answer |-> answer]

\* The quizzes App can hand to the Quiz component: n questions, either with
\* the UI numbering only or with metadata.templateSelectedIndices as well.
QuizForms ==
    UNION {
        {[questions |-> [k \in 1 .. n |-> QuizQuestion(answers[k])],
          selectedIndices |-> [k \in 1 .. n |-> k - 1],
          hasMetadata |-> meta.has,
          templateSelectedIndices |-> meta.indices] :
            answers \in [1 .. n -> 0 .. (Len(AnswerOptions) - 1)],
            meta \in {[has |-> FALSE, indices |-> << >>]}
                     \cup {[has |-> TRUE, indices |-> sel] :
                              sel \in Arrangements(AllIndices(n + 1), n)}}
        : n \in 1 .. MaxQuizQuestions}

\* The quizData object built by onQuizComplete and normalised by
\* saveQuizResult (total_questions || 10).
QuizData(finalScore) ==
    [score |-> finalScore,
     correct_answers |-> finalScore,
     total_questions |-> SavedTotalQuestions,
     selected_question_indices |->
        IF quiz.hasMetadata THEN quiz.templateSelectedIndices ELSE quiz.selectedIndices]

\* The Quiz component is rendered: view === "quiz" && quiz.
QuizMounted == view = "quiz"

\* onQuizComplete(score, pdfId): the three state updates of App and the call
\* of saveQuizResult.  Nothing records that it has run before.
OnQuizComplete(finalScore, flushNow) ==
    /\ saveCalls' = saveCalls + 1
    /\ inFlight' = Append(inFlight, QuizData(finalScore))
    /\ IF flushNow
       THEN /\ appScore' = finalScore
            /\ quizCompleted' = TRUE
            /\ view' = "result"
            /\ pendingResult' = NothingPending
       ELSE /\ pendingResult' = [scheduled |-> TRUE, score |-> finalScore]
            /\ UNCHANGED <<appScore, quizCompleted, view>>

\* selectedAnswer === answerOptions[correctAnswerIndex] ? 1 : 0
CurrentQuestionScoreAlways(question, selected) == 1
CurrentQuestionScore(question, selected) ==
    IF selected = question.options[question.answer + 1] THEN 1 ELSE 0

\* handleNextQuestion, with the render that follows a question change (the
\* effect on currentQuestionIndex sets timeLeft back to 60).
HandleNextQuestion(flushNow) ==
    LET currentQuestion == quiz.questions[currentQuestionIndex + 1]
        newScore == score + CurrentQuestionScore(currentQuestion, selectedAnswer)
    IN  IF currentQuestionIndex < Len(quiz.questions) - 1
        THEN /\ score' = newScore
             /\ selectedAnswer' = "null"
             /\ currentQuestionIndex' = currentQuestionIndex + 1
             /\ timeLeft' = TimerSeconds
             /\ UNCHANGED <<view, appScore, quizCompleted, pendingResult, saveCalls, inFlight>>
        ELSE /\ OnQuizComplete(newScore, flushNow)
             /\ UNCHANGED <<score, selectedAnswer, currentQuestionIndex, timeLeft>>

\* A click on an option: handleAnswerSelection(choice).
HandleAnswerSelection ==
    /\ QuizMounted
    /\ \E choice \in Range(quiz.questions[currentQuestionIndex + 1].options) :
          selectedAnswer' = choice
    /\ UNCHANGED <<view, quiz, appScore, quizCompleted, pendingResult,
                   currentQuestionIndex, score, timeLeft, saveCalls, inFlight, quizzes>>

\* A click on "Next Question" (disabled={!selectedAnswer}).
ClickNext ==
    /\ QuizMounted
    /\ selectedAnswer # "null"
    /\ HandleNextQuestion(TRUE)
    /\ UNCHANGED <<quiz, quizzes>>

\* The interval of a second fires: setTimeLeft((prev) => prev - 1).
Tick ==
    /\ QuizMounted
    /\ timeLeft > 0
    /\ timeLeft' = timeLeft - 1
    /\ UNCHANGED <<view, quiz, appScore, quizCompleted, pendingResult,
                   currentQuestionIndex, score, selectedAnswer, saveCalls, inFlight, quizzes>>

\* The effect on timeLeft, had it not called handleNextQuestion.
TimeLeftEffectIdle ==
    /\ QuizMounted
    /\ timeLeft = 0
    /\ UNCHANGED quizVars

\* The effect on timeLeft: if (timeLeft === 0) handleNextQuestion().
TimeLeftEffect ==
    /\ QuizMounted
    /\ timeLeft = 0
    /\ ~pendingResult.scheduled
    /\ HandleNextQuestion(FALSE)
    /\ UNCHANGED <<quiz, quizzes>>

\* App renders the updates queued from the effect: the result view is shown
\* and Quiz unmounts.
RenderResult ==
    /\ pendingResult.scheduled
    /\ appScore' = pendingResult.score
    /\ quizCompleted' = TRUE
    /\ view' = "result"
    /\ pendingResult' = NothingPending
    /\ UNCHANGED <<quiz, currentQuestionIndex, score, selectedAnswer, timeLeft,
                   saveCalls, inFlight, quizzes>>

\* The insert of a saveQuizResult call settles: the row is written, or the
\* error is caught and returned.
InsertSettles ==
    /\ inFlight # << >>
    /\ \E inserted \in BOOLEAN :
          quizzes' = IF inserted THEN Append(quizzes, Head(inFlight)) ELSE quizzes
    /\ inFlight' = Tail(inFlight)
    /\ UNCHANGED <<view, quiz, appScore, quizCompleted, pendingResult,
                   currentQuestionIndex, score, selectedAnswer, timeLeft, saveCalls>>

\* The quiz view has just been shown with a quiz.
InitQuiz ==
    /\ view = "quiz"
    /\ quiz \in QuizForms
    /\ appScore = 0
    /\ quizCompleted = FALSE
    /\ pendingResult = NothingPending
    /\ currentQuestionIndex = 0
    /\ score = 0
    /\ selectedAnswer = "null"
    /\ timeLeft = TimerSeconds
    /\ saveCalls = 0
    /\ inFlight = << >>
    /\ quizzes = << >>
    /\ RotationStart(0, 1)
    /\ RetryIdle
    /\ RaceIdle
    /\ GenIdle
    /\ PureIdle
    /\ QueueIdle

NextQuiz ==
    \/ HandleAnswerSelection /\ UNCHANGED OutsideQuiz
    \/ ClickNext /\ UNCHANGED OutsideQuiz
    \/ Tick /\ UNCHANGED OutsideQuiz
    \/ TimeLeftEffect /\ UNCHANGED OutsideQuiz
    \/ RenderResult /\ UNCHANGED OutsideQuiz
    \/ InsertSettles /\ UNCHANGED OutsideQuiz

\* One run of a quiz, from its first question to the result view.
SpecQuiz == InitQuiz /\ [][NextQuiz]_vars

\* C10: a finished quiz makes exactly one saveQuizResult call and at most one
\* row of the quizzes table, whatever the order of Next clicks and countdown
\* expiries.
C10_OneAttemptPerFinishedQuiz ==
    /\ saveCalls <= 1
    /\ Len(quizzes) <= 1
    /\ view = "result" => saveCalls = 1

\* C11: when the countdown of a question reaches zero the runner moves on and
\* the question adds nothing to the score, whichever option was highlighted:
\* the score stays as it was, and so does the score handed to saveQuizResult
\* when the question was the last one.
C11_TimeoutScoresNothing ==
    [][TimeLeftEffect =>
          /\ score' = score
          /\ saveCalls' # saveCalls => inFlight'[Len(inFlight')].score = score]_vars

\* A question transition: the runner moves to the next question or completes.
QuestionTransition ==
    currentQuestionIndex' # currentQuestionIndex \/ saveCalls' # saveCalls

\* The score after the step: the score state, or on completion the score
\* handed to saveQuizResult.
ScoreAfter == IF saveCalls' # saveCalls THEN inFlight'[Len(inFlight')].score ELSE score'

\* The option held in selectedAnswer when handleNextQuestion runs is the
\* option at the correct index of the current question.
SubmittedIsCorrect ==
    LET question == quiz.questions[currentQuestionIndex + 1]
    IN  \E k \in 1 .. Len(question.options) :
            k = question.answer + 1 /\ selectedAnswer = question.options[k]

\* C12: on a question transition the score goes up by exactly 1 if the
\* option submitted to handleNextQuestion is the one at the question's correct
\* index and is unchanged otherwise; the score is between 0 and the number of
\* questions already answered, and every final score is at most N.
C12_ScoreCountsExactMatches ==
    /\ [][QuestionTransition =>
             ScoreAfter = score + (IF SubmittedIsCorrect THEN 1 ELSE 0)]_vars
    /\ [][~QuestionTransition => score' = score]_vars
    /\ [](/\ 0 <= score
          /\ score <= currentQuestionIndex
          /\ \A k \in 1 .. Len(inFlight) : inFlight[k].score <= Len(quiz.questions)
          /\ \A k \in 1 .. Len(quizzes) : quizzes[k].score <= Len(quiz.questions))

\* A right answer and then a wrong one were submitted.
C12_Witness ==
    /\ Len(quiz.questions) = 2
    /\ view = "result"
    /\ score = 1
    /\ Len(quizzes) = 1
    /\ quizzes[1].score = 1

\* The quiz run in which the interval keeps firing, pending effects run and
\* React renders the updates it has queued.
SpecQuizFair ==
    /\ SpecQuiz
    /\ WF_vars(Tick /\ UNCHANGED OutsideQuiz)
    /\ WF_vars(TimeLeftEffect /\ UNCHANGED OutsideQuiz)
    /\ WF_vars(RenderResult /\ UNCHANGED OutsideQuiz)

\* C13: the current question index starts at 0, changes only by +1 and only
\* on a submitted answer or an expired countdown, never exceeds N - 1, and
\* completion is signalled only from the last question; with a countdown
\* that keeps running every quiz reaches the result view.
C13_EachQuestionOnceThenCompleted ==
    /\ currentQuestionIndex = 0
    /\ [](currentQuestionIndex \in 0 .. (Len(quiz.questions) - 1))
    /\ [][currentQuestionIndex' # currentQuestionIndex =>
             /\ currentQuestionIndex' = currentQuestionIndex + 1
             /\ ClickNext \/ TimeLeftEffect]_vars
    /\ [][saveCalls' # saveCalls =>
             currentQuestionIndex = Len(quiz.questions) - 1]_vars
    /\ <>(view = "result" /\ currentQuestionIndex = Len(quiz.questions) - 1)

\* A quiz of the largest size has been completed from its last question.
C13_Witness ==
    /\ view = "result"
    /\ Len(quiz.questions) = MaxQuizQuestions
    /\ currentQuestionIndex = MaxQuizQuestions - 1
    /\ saveCalls >= 1

\* C15: every attempt handed to saveQuizResult and every row written has
\* total_questions equal to the length of its selected_question_indices and
\* to the number of questions presented.
C15_TotalQuestionsMatchesIndices ==
    \A row \in Range(inFlight) \cup Range(quizzes) :
        /\ row.total_questions = Len(row.selected_question_indices)
        /\ row.total_questions = Len(quiz.questions)

(***************************************************************************)
(* Two storeQuizTemplate calls for the same document, step by step: each   *)
(* await of the function is a step, and the steps of the two calls         *)
(* interleave.  The store answers every request and enforces uniqueness    *)
(* of pdf_id; both calls carry a list of questions that passes validation. *)
(***************************************************************************)
Callers == {1, 2}

\* A call that has not yet run its select, with n validated questions.
CallStart(n) ==
    [pc |-> "select", existing |-> 0, n |-> n, path |-> "none",
     conflict |-> FALSE, ret |-> "none"]

\* error.code === '23505'
IsUniqueViolationNever(code) == FALSE
IsUniqueViolation(code) == code = "23505"

\* The answer of the store to an insert for the document.
InsertCode == IF templateRows = << >> THEN "ok" ELSE "23505"

\* The table after .update(...).eq(...): the rows with the matched ids hold
\* the new questions.
UpdateRows(ids, n) ==
    [k \in 1 .. Len(templateRows) |->
        IF templateRows[k].id \in ids THEN [templateRows[k] EXCEPT !.n = n]
        ELSE templateRows[k]]

\* The ids of the rows of the document.
RowIds == {templateRows[k].id : k \in 1 .. Len(templateRows)}

\* select("id").eq("pdf_id", pdf_id).maybeSingle()
StoreSelect(p) ==
    /\ callers[p].pc = "select"
    /\ callers' = [callers EXCEPT
          ![p].existing = IF templateRows = << >> THEN 0 ELSE templateRows[1].id,
          ![p].pc = "write"]
    /\ UNCHANGED templateRows

\* if (existingTemplate) update by id, else insert; on a unique violation
\* the call goes on to the update by pdf_id, any other error is returned.
StoreWrite(p) ==
    /\ callers[p].pc = "write"
    /\ IF callers[p].existing # 0
       THEN /\ templateRows' = UpdateRows({callers[p].existing}, callers[p].n)
            /\ callers' = [callers EXCEPT ![p].pc = "done", ![p].path = "update",
                              ![p].ret = IF callers[p].existing \in RowIds
                                         THEN "record" ELSE "error"]
       ELSE IF InsertCode = "ok"
       THEN /\ templateRows' = Append(templateRows, [id |-> 1, n |-> callers[p].n])
            /\ callers' = [callers EXCEPT ![p].pc = "done", ![p].path = "insert",
                              ![p].ret = "record"]
       ELSE IF IsUniqueViolation(InsertCode)
       THEN /\ callers' = [callers EXCEPT ![p].pc = "retryUpdate", ![p].conflict = TRUE]
            /\ UNCHANGED templateRows
       ELSE /\ callers' = [callers EXCEPT ![p].pc = "done", ![p].path = "insert",
                              ![p].conflict = TRUE, ![p].ret = "error"]
            /\ UNCHANGED templateRows

\* update(retryUpdateData).eq("pdf_id", pdf_id).select().single()
StoreRetryUpdate(p) ==
    /\ callers[p].pc = "retryUpdate"
    /\ templateRows' = UpdateRows(RowIds, callers[p].n)
    /\ callers' = [callers EXCEPT ![p].pc = "done", ![p].path = "retryUpdate",
                      ![p].ret = IF Len(templateRows) = 1 THEN "record" ELSE "error"]

InitRace ==
    /\ callers \in [Callers -> {CallStart(n) : n \in 1 .. MaxQuestions}]
    /\ templateRows \in {<< >>, <<[id |-> 1, n |-> 1]>>}
    /\ RotationStart(0, 1)
    /\ RetryIdle
    /\ QuizIdle
    /\ GenIdle
    /\ PureIdle
    /\ QueueIdle

NextRace ==
    \/ \E p \in Callers : StoreSelect(p) /\ UNCHANGED OutsideRace
    \/ \E p \in Callers : StoreWrite(p) /\ UNCHANGED OutsideRace
    \/ \E p \in Callers : StoreRetryUpdate(p) /\ UNCHANGED OutsideRace

SpecRace == InitRace /\ [][NextRace]_vars

\* C16: whatever the interleaving of two storeQuizTemplate calls for one
\* document, neither returns an error, the call whose insert hits the
\* uniqueness conflict goes on to an update and returns its record, and once
\* both are done exactly one template row exists.
C16_ConcurrentStoresLeaveOneTemplate ==
    /\ Len(templateRows) <= 1
    /\ \A p \in DOMAIN callers :
          /\ callers[p].ret # "error"
          /\ callers[p].conflict =>
                \/ callers[p].pc = "retryUpdate"
                \/ callers[p].path = "retryUpdate" /\ callers[p].ret = "record"
    /\ (callers # << >> /\ \A p \in DOMAIN callers : callers[p].pc = "done") =>
          /\ Len(templateRows) = 1
          /\ \A p \in DOMAIN callers : callers[p].ret = "record"

\* Both calls found no row; one inserted, the other lost and updated.
C16_Witness ==
    /\ callers # << >>
    /\ \A p \in DOMAIN callers : callers[p].pc = "done" /\ callers[p].ret = "record"
    /\ \E p, q \in DOMAIN callers :
          callers[p].path = "insert" /\ callers[q].path = "retryUpdate"
    /\ Len(templateRows) = 1

(***************************************************************************)
(* Texts.  A text is a sequence of characters; the characters of the model *)
(* are a few letters in both cases, the full stop, the space and the line  *)
(* feed.                                                                   *)
(***************************************************************************)
Letters == <<"a", "b", "c", "d", "e", "f", "g", "h">>
Capitals == <<"A", "B", "C", "D", "E", "F", "G", "H">>

\* The characters matched by \s and removed by trim().
Whitespace == {" ", "\n"}

\* String.prototype.toLowerCase
ToLowerCase(text) ==
    [k \in 1 .. Len(text) |->
        IF \E i \in 1 .. Len(Capitals) : Capitals[i] = text[k]
        THEN Letters[CHOOSE i \in 1 .. Len(Capitals) : Capitals[i] = text[k]]
        ELSE text[k]]

\* text.replace(/\s+/g, ' '): every run of white space becomes one space.
CollapseWhitespace(text) ==
    LET kept == {k \in 1 .. Len(text) :
                    \/ text[k] \notin Whitespace
                    \/ k = 1
                    \/ text[k - 1] \notin Whitespace}
        order == Ascending(kept)
    IN  [k \in 1 .. Len(order) |->
            IF text[order[k]] \in Whitespace THEN " " ELSE text[order[k]]]

\* String.prototype.trim
Trim(text) ==
    LET solid == {k \in 1 .. Len(text) : text[k] \notin Whitespace}
    IN  IF solid = {} THEN << >>
        ELSE SubSeq(text, SetMin(solid),
                    CHOOSE k \in solid : \A m \in solid : m <= k)

(***************************************************************************)
(* Quiz generation: generateQuizFromPDF (App.jsx) calling                  *)
(* generateQuizQuestions (openai.js), which serves a stored template or    *)
(* generates questions chunk by chunk, stores them as the template and     *)
(* picks the quiz; then the completion of that quiz.  The document id is   *)
(* present; a stored template has not expired.                             *)
(***************************************************************************)
\* const BATCH_SIZE = 2
BATCH_SIZE == 2

\* questionsCount = 50, the most questions kept for the template.
QuestionsCount == 50

\* The size of a quiz: the 10 of generateQuizFromTemplate(pdfId, 10), of
\* Math.min(10, finalQuestions.length) and of generateQuizFromPDF's
\* selection, scaled to the model's quizzes.
QuizSize == MaxQuizQuestions

\* The ways the question every chunk can produce is written: they differ
\* in case and white space only.
SharedForms ==
    <<<<"A", " ", "b">>, <<"a", " ", " ", "b">>,
      <<" ", "a", "\n", "b">>, <<"a", " ", "B", " ">>>>

\* The text of a generated question: a letter of its own for a question
\* of chunk `key`, or one of the forms of the shared question (key 0).
QuestionText(key, form) ==
    IF key = 0 THEN SharedForms[((form - 1) % Len(SharedForms)) + 1]
    ELSE <<Letters[key + 1]>>

\* A question as parsed from the response for chunk j.
GeneratedQuestion(j, key, form, nOptions) ==
    [chunk |-> j, text |-> QuestionText(key, form),
     hasText |-> TRUE, nOptions |-> nOptions, hasAnswer |-> TRUE]

\* The question lists a parsed response for chunk j can hold: none, one
\* question of its own, that and a question every chunk can produce, or a
\* question with a single option.
ChunkYields(j) ==
    {<< >>,
     <<GeneratedQuestion(j, j, "plain", 4)>>,
     <<GeneratedQuestion(j, j, "plain", 4), GeneratedQuestion(j, 0, j, 4)>>,
     <<GeneratedQuestion(j, j, "plain", 1)>>}

\* How the request for chunk j can settle: withRateLimitRetry throws (the
\* async function's catch returns []), the content does not parse or holds
\* no questions array (chunkQuestions stays []), or questions are parsed.
ChunkOutcomes(j) ==
    {[kind |-> "failed", questions |-> << >>],
     [kind |-> "unparsable", questions |-> << >>]}
    \cup {[kind |-> "parsed", questions |-> y] : y \in ChunkYields(j)}

\* The chunks of the batch that starts at loop index i (chunks from 1).
BatchOfAll(i, n) == (i + 1) .. n
BatchOf(i, n) == (i + 1) .. Min(i + BATCH_SIZE, n)

\* q.question.toLowerCase().replace(/\s+/g, ' ').trim()
QuestionHashRaw(q) == q.text
QuestionHash(q) == Trim(CollapseWhitespace(ToLowerCase(q.text)))

\* A deduplication that forgets a hash when it meets it again.
DedupeToggling(qs) ==
    LET kept == {k \in 1 .. Len(qs) :
                    Cardinality({m \in 1 .. (k - 1) :
                        QuestionHash(qs[m]) = QuestionHash(qs[k])}) % 2 = 0}
        order == Ascending(kept)
    IN  [k \in 1 .. Len(order) |-> qs[order[k]]]

\* The deduplication: a question is kept if no earlier one has its hash.
Dedupe(qs) ==
    LET kept == {k \in 1 .. Len(qs) :
                    \A m \in 1 .. (k - 1) : QuestionHash(qs[m]) # QuestionHash(qs[k])}
        order == Ascending(kept)
    IN  [k \in 1 .. Len(order) |-> qs[order[k]]]

\* uniqueQuestions.slice(0, questionsCount)
FinalQuestions(all) ==
    LET unique == Dedupe(all) IN SubSeq(unique, 1, Min(Len(unique), QuestionsCount))

\* The object returned from the catch block of generateQuizQuestions.
ErrorResult ==
    [status |-> "error", questions |-> << >>, selectedIndices |-> << >>,
     templateId |-> FALSE, warning |-> FALSE]

\* The quizData returned after storeQuizTemplate answered with templateResult
\* and the indices sel were drawn.  storeQuizTemplate does not throw, so the
\* catch block that sets the warning is not entered.
QuizDataResult(final, templateResult, sel) ==
    [status |-> "ok",
     questions |-> IF Len(sel) < Len(final)
                   THEN [k \in 1 .. Len(sel) |-> final[sel[k] + 1]]
                   ELSE final,
     selectedIndices |-> sel,
     templateId |-> templateResult.status = "stored",
     warning |-> FALSE]

\* generateQuizFromPDF: the quiz made of the returned questions.  With 10 or
\* fewer questions all are taken and numbered from 0, else 10 are drawn and
\* keep their positions; the other fields of the result (metadata) are kept.
AppQuizzes(questions, hasMetadata, templateSelectedIndices) ==
    IF Len(questions) <= QuizSize
    THEN {[questions |-> questions,
           selectedIndices |-> [k \in 1 .. Len(questions) |-> k - 1],
           hasMetadata |-> hasMetadata,
           templateSelectedIndices |-> templateSelectedIndices]}
    ELSE {[questions |-> [k \in 1 .. Len(sel) |-> questions[sel[k] + 1]],
           selectedIndices |-> sel,
           hasMetadata |-> hasMetadata,
           templateSelectedIndices |-> templateSelectedIndices] :
             sel \in FisherYatesSlice(Ascending(AllIndices(Len(questions))), QuizSize)}

\* The batch at loop index i is started: one request per chunk of the batch.
StartBatch(i, n, status, reqs) ==
    /\ batchStart' = i
    /\ chunkStatus' = [j \in 1 .. n |-> IF j \in BatchOf(i, n) THEN "inFlight" ELSE status[j]]
    /\ requested' = [j \in 1 .. n |-> IF j \in BatchOf(i, n) THEN reqs[j] + 1 ELSE reqs[j]]
    /\ genPc' = "batch"

\* generateQuizQuestions returns the error object and generateQuizFromPDF
\* finds no questions in it: it reports the failure and returns null.
GenerationFails ==
    /\ genResult' = ErrorResult
    /\ appFailed' = TRUE
    /\ genPc' = "returned"
    /\ UNCHANGED <<view, quiz, template, storeResult, storedQuestions>>

\* A valid template exists and no refresh is forced: the quiz comes from
\* generateQuizFromTemplate(pdfId, 10).
UseStoredTemplate ==
    /\ genPc = "start"
    /\ template.n > 0
    /\ ~forceRefresh
    /\ GenerateQuizAll \/ GenerateQuizRotation
    /\ quizResult'.status = "ok"
    /\ genResult' = [NoGenResult EXCEPT !.status = "template"]
    /\ quiz' \in AppQuizzes(quizResult'.questions, quizResult'.hasMetadata,
                            quizResult'.templateSelectedIndices)
    /\ view' = "quiz"
    /\ timeLeft' = TimerSeconds
    /\ genPc' = "returned"
    /\ UNCHANGED <<forceRefresh, chunksToUse, batchStart, chunkStatus, chunkQuestions,
                   requested, delaysElapsed, allQuestions, storedQuestions, appFailed>>
    /\ UNCHANGED <<appScore, quizCompleted, pendingResult, currentQuestionIndex, score,
                   selectedAnswer, saveCalls, inFlight, quizzes, served, calls>>

\* No template is served: processPDFContent yields the chunks; with none the
\* run fails, else the first batch is started.
StartChunks ==
    /\ genPc = "start"
    /\ template.n = 0 \/ forceRefresh
    /\ \E n \in 0 .. MaxChunks :
          /\ chunksToUse' = n
          /\ IF n = 0
             THEN /\ GenerationFails
                  /\ UNCHANGED <<batchStart, chunkStatus, chunkQuestions, requested>>
             ELSE /\ StartBatch(0, n, [j \in 1 .. n |-> "unrequested"], [j \in 1 .. n |-> 0])
                  /\ chunkQuestions' = [j \in 1 .. n |-> << >>]
                  /\ UNCHANGED <<genResult, appFailed, view, quiz, template, storeResult,
                                 storedQuestions>>
    /\ UNCHANGED <<forceRefresh, delaysElapsed, allQuestions>>
    /\ UNCHANGED <<count, localStorage, storageKind, quizResult, served, calls, lastOp>>
    /\ UNCHANGED <<appScore, quizCompleted, pendingResult, currentQuestionIndex, score,
                   selectedAnswer, timeLeft, saveCalls, inFlight, quizzes>>

\* The request of a chunk settles.
ChunkSettles ==
    /\ genPc = "batch"
    /\ \E j \in 1 .. chunksToUse :
          /\ chunkStatus[j] = "inFlight"
          /\ \E outcome \in ChunkOutcomes(j) :
                /\ chunkStatus' = [chunkStatus EXCEPT ![j] = outcome.kind]
                /\ chunkQuestions' = [chunkQuestions EXCEPT ![j] = outcome.questions]
    /\ UNCHANGED <<forceRefresh, genPc, chunksToUse, batchStart, requested, delaysElapsed,
                   allQuestions, storedQuestions, genResult, appFailed>>
    /\ UNCHANGED <<rotationVars, quizVars>>

\* The questions of the batch, in the order of its chunks.
RECURSIVE CollectedUntilEmpty(_, _)
CollectedUntilEmpty(js, results) ==
    IF js = {} THEN << >>
    ELSE LET j == SetMin(js)
         IN  IF results[j] = << >> THEN << >>
             ELSE results[j] \o CollectedUntilEmpty(js \ {j}, results)
RECURSIVE Collected(_, _)
Collected(js, results) ==
    IF js = {} THEN << >>
    ELSE LET j == SetMin(js) IN results[j] \o Collected(js \ {j}, results)

\* The rest of generateQuizQuestions after the last batch, and the rest of
\* generateQuizFromPDF after it returned.
FinishGeneration(all) ==
    IF Len(all) = 0
    THEN GenerationFails
    ELSE LET final == FinalQuestions(all)
         IN  \E storageOk \in BOOLEAN :
             \E sel \in FisherYatesSlice(Ascending(AllIndices(Len(final))),
                                         Min(QuizSize, Len(final))) :
                /\ storeResult' = StoreOutcome(final, storageOk)
                /\ IF storeResult'.status = "stored"
                   THEN /\ template' = [n |-> storeResult'.n]
                        /\ storedQuestions' = ValidatedQuestions(final)
                   ELSE UNCHANGED <<template, storedQuestions>>
                /\ genResult' = QuizDataResult(final, storeResult', sel)
                /\ quiz' \in AppQuizzes(genResult'.questions, FALSE, << >>)
                /\ view' = "quiz"
                /\ appFailed' = FALSE
                /\ genPc' = "returned"

\* Promise.all of the batch resolves: its questions are collected; then the
\* delay before the next batch is set, or after the last batch the run ends.
BatchCollected ==
    /\ genPc = "batch"
    /\ \A j \in BatchOf(batchStart, chunksToUse) : chunkStatus[j] # "inFlight"
    /\ allQuestions' =
          allQuestions \o Collected(BatchOf(batchStart, chunksToUse), chunkQuestions)
    /\ IF batchStart + BATCH_SIZE < chunksToUse
       THEN /\ genPc' = "delay"
            /\ UNCHANGED <<genResult, appFailed, view, quiz, template, storeResult,
                           storedQuestions>>
       ELSE FinishGeneration(allQuestions')
    /\ UNCHANGED <<forceRefresh, chunksToUse, batchStart, chunkStatus, chunkQuestions,
                   requested, delaysElapsed>>
    /\ UNCHANGED <<count, localStorage, storageKind, quizResult, served, calls, lastOp>>
    /\ UNCHANGED <<appScore, quizCompleted, pendingResult, currentQuestionIndex, score,
                   selectedAnswer, timeLeft, saveCalls, inFlight, quizzes>>

\* The delay between batches has elapsed: the next batch is started.
DelayElapsed ==
    /\ genPc = "delay"
    /\ delaysElapsed' = delaysElapsed + 1
    /\ StartBatch(batchStart + BATCH_SIZE, chunksToUse, chunkStatus, requested)
    /\ UNCHANGED <<forceRefresh, chunksToUse, chunkQuestions, allQuestions,
                   storedQuestions, genResult, appFailed>>
    /\ UNCHANGED <<rotationVars, quizVars>>

\* The quiz is completed with some score: onQuizComplete.
CompleteQuiz ==
    /\ genPc = "returned"
    /\ view = "quiz"
    /\ \E finalScore \in 0 .. Len(quiz.questions) : OnQuizComplete(finalScore, TRUE)
    /\ UNCHANGED <<quiz, currentQuestionIndex, score, selectedAnswer, timeLeft, quizzes>>
    /\ UNCHANGED <<rotationVars, genVars>>

InitGeneration ==
    /\ \E n \in 0 .. MaxQuestions : RotationStart(n, QuizSize)
    /\ forceRefresh \in BOOLEAN
    /\ genPc = "start"
    /\ chunksToUse = 0
    /\ batchStart = 0
    /\ chunkStatus = << >>
    /\ chunkQuestions = << >>
    /\ requested = << >>
    /\ delaysElapsed = 0
    /\ allQuestions = << >>
    /\ storedQuestions = << >>
    /\ genResult = NoGenResult
    /\ appFailed = FALSE
    /\ QuizIdle
    /\ RetryIdle
    /\ RaceIdle
    /\ PureIdle
    /\ QueueIdle

NextGeneration ==
    \/ UseStoredTemplate /\ UNCHANGED OutsideGeneration
    \/ StartChunks /\ UNCHANGED OutsideGeneration
    \/ ChunkSettles /\ UNCHANGED OutsideGeneration
    \/ BatchCollected /\ UNCHANGED OutsideGeneration
    \/ DelayElapsed /\ UNCHANGED OutsideGeneration
    \/ CompleteQuiz /\ UNCHANGED OutsideGeneration
    \/ InsertSettles /\ UNCHANGED <<rotationVars, genVars>> /\ UNCHANGED OutsideGeneration

SpecGeneration == InitGeneration /\ [][NextGeneration]_vars

\* The chunk's request has settled.
Settled(j) == chunkStatus[j] \in {"failed", "unparsable", "parsed"}

\* The run went through chunk-based generation and has ended.
ChunkRunEnded == genPc = "returned" /\ chunksToUse > 0

BatchNumber(j) == (j - 1) \div BATCH_SIZE

\* C20: at most BATCH_SIZE chunk requests are in flight; a request of a
\* later batch is started only when every request of the batches before has
\* settled and the delay between the batches has elapsed; every chunk is
\* requested exactly once.
C20_BatchesBoundConcurrency ==
    /\ Cardinality({j \in 1 .. chunksToUse : chunkStatus[j] = "inFlight"}) <= BATCH_SIZE
    /\ \A j \in 1 .. chunksToUse :
          /\ requested[j] <= 1
          /\ requested[j] = 1 <=> chunkStatus[j] # "unrequested"
          /\ requested[j] = 1 =>
                /\ delaysElapsed >= BatchNumber(j)
                /\ \A m \in 1 .. chunksToUse : BatchNumber(m) < BatchNumber(j) => Settled(m)
    /\ ChunkRunEnded => \A j \in 1 .. chunksToUse : requested[j] = 1

\* The second batch is in flight after the first has settled and the delay
\* has elapsed.
C20_Witness ==
    /\ genPc = "batch"
    /\ chunksToUse = 3
    /\ chunkStatus[3] = "inFlight"
    /\ Settled(1) /\ Settled(2)
    /\ delaysElapsed = 1

\* The position in the template of a question of the quiz: its place in the
\* stored list, from 0 (NoIndex if the list does not hold it).
OriginalIndex(q) ==
    IF genResult.status = "template"
    THEN q.qid
    ELSE IF \E k \in 1 .. Len(storedQuestions) : storedQuestions[k] = q
         THEN (CHOOSE k \in 1 .. Len(storedQuestions) : storedQuestions[k] = q) - 1
         ELSE NoIndex

\* C14: the selected_question_indices of an attempt are the template
\* positions of the questions that were presented, both for a quiz drawn
\* from a stored template and for one from a generation that stored a new
\* template.
C14_AttemptHoldsTemplateIndices ==
    (genResult.status = "template" \/ storeResult.status = "stored") =>
        \A row \in Range(inFlight) \cup Range(quizzes) :
            /\ Len(row.selected_question_indices) = Len(quiz.questions)
            /\ \A k \in 1 .. Len(quiz.questions) :
                  row.selected_question_indices[k] = OriginalIndex(quiz.questions[k])

\* C17: when the storage layer fails, storeQuizTemplate returns its error
\* object, generateQuizQuestions still returns the generated questions, and
\* that result carries the warning and no template id.
C17_UnsavedResultIsMarked ==
    (genResult.status = "ok" /\ storeResult.status = "error") =>
        /\ genResult.questions # << >>
        /\ ~genResult.templateId
        /\ genResult.warning

\* The question lists storeQuizTemplate can be handed.
CandidateLists == UNION {[1 .. len -> Candidate] : len \in 0 .. MaxQuestions}

\* C18: storeQuizTemplate writes nothing for an empty list or a list without
\* a valid question, a stored template is never empty, and a generation in
\* which every chunk yields no question ends with the error result, without
\* a template written, and is reported as a failure.
C18_NoEmptyTemplate ==
    /\ \A questions \in CandidateLists : \A storageOk \in BOOLEAN :
          ValidatedQuestions(questions) = << >> =>
              StoreOutcome(questions, storageOk).status = "error"
    /\ storeResult.status = "stored" =>
          /\ template.n >= 1
          /\ Len(storedQuestions) = template.n
          /\ \A k \in 1 .. Len(storedQuestions) : IsValidQuestion(storedQuestions[k])
    /\ (ChunkRunEnded /\ \A j \in 1 .. chunksToUse : chunkQuestions[j] = << >>) =>
          /\ genResult = ErrorResult
          /\ storeResult.status = "none"
          /\ storedQuestions = << >>
          /\ appFailed
          /\ view # "quiz"
    /\ (ChunkRunEnded /\ genResult.status = "ok"
            /\ ValidatedQuestions(FinalQuestions(allQuestions)) = << >>) =>
          /\ storeResult.status = "error"
          /\ storedQuestions = << >>

\* Every chunk was requested and none gave a question: the run failed.
C18_Witness ==
    /\ ChunkRunEnded
    /\ chunksToUse = MaxChunks
    /\ \A j \in 1 .. chunksToUse : chunkQuestions[j] = << >>
    /\ \E j \in 1 .. chunksToUse : chunkStatus[j] = "parsed"
    /\ genResult = ErrorResult
    /\ appFailed

\* C21: every question in the list returned by generateQuizQuestions and in
\* the stored template has a question text, at least 2 options and an
\* answer: candidates without them are dropped.
C21_OnlyValidQuestionsReachQuiz ==
    genResult.status = "ok" =>
        \A q \in Range(genResult.questions) \cup Range(storedQuestions) :
            q.hasText /\ q.nOptions >= 2 /\ q.hasAnswer

(***************************************************************************)
(* The deduplication of generateQuizQuestions applied to a list of         *)
(* questions, and applied again to its own result.                         *)
(***************************************************************************)
\* The question texts of the lists: three spellings of "a", two of "a b",
\* and "b".
DedupeTexts ==
    {<<"a">>, <<"A">>, <<" ", "a">>, <<"a", " ", "b">>,
     <<"A", "\n", " ", "b">>, <<"b">>}

\* The lists of questions handed to the deduplication.
DedupeInputs ==
    UNION {[1 .. n -> [text : DedupeTexts]] : n \in 0 .. MaxListLen}

DedupeFirst ==
    /\ dedupePasses = 0
    /\ dedupeOnce' = Dedupe(dedupeInput)
    /\ dedupePasses' = 1
    /\ UNCHANGED <<dedupeInput, dedupeTwice>>

DedupeAgain ==
    /\ dedupePasses = 1
    /\ dedupeTwice' = Dedupe(dedupeOnce)
    /\ dedupePasses' = 2
    /\ UNCHANGED <<dedupeInput, dedupeOnce>>

InitDedupe ==
    /\ RotationStart(0, 1)
    /\ RetryIdle
    /\ QuizIdle
    /\ RaceIdle
    /\ GenIdle
    /\ ChunkerIdle
    /\ QueueIdle
    /\ dedupeInput \in DedupeInputs
    /\ dedupeOnce = << >>
    /\ dedupeTwice = << >>
    /\ dedupePasses = 0

NextDedupe ==
    \/ DedupeFirst /\ UNCHANGED OutsideDedupe
    \/ DedupeAgain /\ UNCHANGED OutsideDedupe

SpecDedupe == InitDedupe /\ [][NextDedupe]_vars

\* C22: applying the deduplication to its own output gives that output
\* again.
C22_DedupeIsIdempotent ==
    dedupePasses = 2 => dedupeTwice = dedupeOnce

\* A list with three questions of one key was deduplicated twice.
C22_Witness ==
    /\ dedupePasses = 2
    /\ Len(dedupeInput) = 3
    /\ Len(dedupeOnce) = 1
    /\ dedupeInput[1] # dedupeInput[2]

\* Two texts differ in case and white space only.
Letter(c) == IF c = "A" THEN "a" ELSE IF c = "B" THEN "b" ELSE c
Words(text) ==
    LET solid == Ascending({k \in 1 .. Len(text) : text[k] \notin Whitespace})
    IN  [k \in 1 .. Len(solid) |->
            [letter |-> Letter(text[solid[k]]),
             spaced |-> k > 1 /\ solid[k] > solid[k - 1] + 1]]
SameKey(t, u) == Words(t) = Words(u)

\* The positions of the input that hold the first question of a key.
FirstOccurrences ==
    {k \in 1 .. Len(dedupeInput) :
        \A m \in 1 .. (k - 1) :
            ~SameKey(dedupeInput[m].text, dedupeInput[k].text)}

\* C23: the output of the deduplication is the input's questions that are
\* the first of their normalized key, in the input's order: no two output
\* questions share a key and every key of the input is in the output.
C23_DedupeKeepsFirstOccurrences ==
    dedupePasses >= 1 =>
        /\ Len(dedupeOnce) = Cardinality(FirstOccurrences)
        /\ \A k \in 1 .. Len(dedupeOnce) :
            \E i \in FirstOccurrences :
                /\ Cardinality({m \in FirstOccurrences : m < i}) = k - 1
                /\ dedupeOnce[k] = dedupeInput[i]
        /\ \A k, m \in 1 .. Len(dedupeOnce) :
            k # m => ~SameKey(dedupeOnce[k].text, dedupeOnce[m].text)
        /\ \A i \in 1 .. Len(dedupeInput) :
            \E k \in 1 .. Len(dedupeOnce) :
                SameKey(dedupeOnce[k].text, dedupeInput[i].text)

\* A list whose second question repeats the key of the first in another
\* spelling, followed by a question of another key, was deduplicated.
C23_Witness ==
    /\ dedupePasses >= 1
    /\ Len(dedupeInput) = 3
    /\ dedupeInput[1].text = <<"a">>
    /\ dedupeInput[2].text = <<" ", "a">>
    /\ dedupeInput[3].text = <<"A", "\n", " ", "b">>
    /\ Len(dedupeOnce) = 2

(***************************************************************************)
(* chunkText: the text is split into units at blank lines and at full      *)
(* stops followed by white space, and the units are gathered into chunks.  *)
(***************************************************************************)
\* The characters of the texts handed to chunkText.
Characters == {"a", ".", " ", "\n"}

ChunkTexts == UNION {[1 .. n -> Characters] : n \in 0 .. MaxTextLen}

\* The maxChunkSize arguments (4000 where the program calls chunkText).
Budgets == 0 .. MaxBudget

SetMax(S) == CHOOSE x \in S : \A y \in S : y <= x

\* Where a match of /\n\s*\n|\.\s+/ that starts at position i ends, or 0
\* if none starts there.  Both \s* and \s+ take the longest run they can.
SeparatorEnd(text, i) ==
    IF text[i] = "\n"
    THEN LET ends == {j \in (i + 1) .. Len(text) :
                        /\ text[j] = "\n"
                        /\ \A k \in (i + 1) .. (j - 1) : text[k] \in Whitespace}
         IN  IF ends = {} THEN 0 ELSE SetMax(ends)
    ELSE IF text[i] = "."
    THEN LET run == {j \in (i + 1) .. Len(text) :
                        \A k \in (i + 1) .. j : text[k] \in Whitespace}
         IN  IF run = {} THEN 0 ELSE SetMax(run)
    ELSE 0

\* text.split(/\n\s*\n|\.\s+/), the part from position `start` on, when
\* the search for the next separator has come to position i.
RECURSIVE SplitFrom(_, _, _)
SplitFrom(text, start, i) ==
    IF i > Len(text) THEN <<SubSeq(text, start, Len(text))>>
    ELSE LET e == SeparatorEnd(text, i)
         IN  IF e = 0 THEN SplitFrom(text, start, i + 1)
             ELSE <<SubSeq(text, start, i - 1)>> \o SplitFrom(text, e + 1, e + 1)

Split(text) == SplitFrom(text, 1, 1)

\* A test that closes the current chunk only once it is over the size.
NeedsFlushLate(currentChunk, paragraph, size) ==
    Len(currentChunk) > size /\ Len(currentChunk) > 0

\* currentChunk.length + paragraph.length > maxChunkSize && currentChunk.length > 0
NeedsFlush(currentChunk, paragraph, size) ==
    Len(currentChunk) + Len(paragraph) > size /\ Len(currentChunk) > 0

\* The for loop from paragraph k on, and the push of the last chunk.
RECURSIVE ChunkLoop(_, _, _, _, _)
ChunkLoop(paragraphs, k, size, pushed, currentChunk) ==
    IF k > Len(paragraphs)
    THEN IF Len(Trim(currentChunk)) > 0
         THEN Append(pushed, Trim(currentChunk))
         ELSE pushed
    ELSE LET flush == NeedsFlush(currentChunk, paragraphs[k], size)
         IN  ChunkLoop(paragraphs, k + 1, size,
                       IF flush THEN Append(pushed, Trim(currentChunk)) ELSE pushed,
                       (IF flush THEN << >> ELSE currentChunk)
                           \o paragraphs[k] \o <<" ">>)

ChunkText(text, size) == ChunkLoop(Split(text), 1, size, << >>, << >>)

ChunkTextReturns ==
    /\ chunkPc = "called"
    /\ chunks' = ChunkText(chunkInput, maxChunkSize)
    /\ chunkPc' = "returned"
    /\ UNCHANGED <<chunkInput, maxChunkSize>>

InitChunker ==
    /\ RotationStart(0, 1)
    /\ RetryIdle
    /\ QuizIdle
    /\ RaceIdle
    /\ GenIdle
    /\ DedupeIdle
    /\ QueueIdle
    /\ chunkInput \in ChunkTexts
    /\ maxChunkSize \in Budgets
    /\ chunks = << >>
    /\ chunkPc = "called"

NextChunker == ChunkTextReturns /\ UNCHANGED OutsideChunker

SpecChunker == InitChunker /\ [][NextChunker]_vars

\* The units of the text handed to chunkText.
Units == Split(chunkInput)

\* The chunk is within the size, or is one unit that is over the size.
WithinBudgetOrOneUnit(chunk) ==
    \/ Len(chunk) <= maxChunkSize
    \/ \E i \in 1 .. Len(Units) :
        Len(Units[i]) > maxChunkSize /\ chunk = Trim(Units[i])

\* C24: no chunk is longer than maxChunkSize unless it is a single unit
\* that alone is longer; a longer unit that is not blank is a chunk of its
\* own, whole and without another unit's text; the empty text gives no
\* chunk.
C24_ChunksWithinBudget ==
    chunkPc = "returned" =>
        /\ \A k \in 1 .. Len(chunks) : WithinBudgetOrOneUnit(chunks[k])
        /\ \A i \in 1 .. Len(Units) :
            (Len(Units[i]) > maxChunkSize /\ Trim(Units[i]) # << >>) =>
                \E k \in 1 .. Len(chunks) : chunks[k] = Trim(Units[i])
        /\ chunkInput = << >> => chunks = << >>

\* C24 as stated: every unit longer than maxChunkSize is a chunk of its own.
C24_EveryOversizedUnitIsAChunk ==
    chunkPc = "returned" =>
        /\ \A k \in 1 .. Len(chunks) : WithinBudgetOrOneUnit(chunks[k])
        /\ \A i \in 1 .. Len(Units) :
            Len(Units[i]) > maxChunkSize =>
                \E k \in 1 .. Len(chunks) : chunks[k] = Trim(Units[i])
        /\ chunkInput = << >> => chunks = << >>

\* A text of a unit that fits and a unit over the size was chunked.
C24_Witness ==
    /\ chunkPc = "returned"
    /\ chunkInput = <<"a", ".", " ", "a", "a">>
    /\ maxChunkSize = 1
    /\ chunks = <<<<"a">>, <<"a", "a">>>>

\* The text without its white space.
WithoutWhitespace(text) ==
    LET solid == Ascending({k \in 1 .. Len(text) : text[k] \notin Whitespace})
    IN  [k \in 1 .. Len(solid) |-> text[solid[k]]]

RECURSIVE Concatenation(_)
Concatenation(texts) ==
    IF texts = << >> THEN << >> ELSE Head(texts) \o Concatenation(Tail(texts))

\* C25: the chunks put together give back the text, its full stops
\* included, white space aside.
C25_ChunksGiveBackTheText ==
    chunkPc = "returned" =>
        WithoutWhitespace(Concatenation(chunks)) = WithoutWhitespace(chunkInput)

(***************************************************************************)
(* Background processing: queuePDFForProcessing and the self-rescheduling  *)
(* processNextPDF.  A step runs from one await to the next; the status     *)
(* update of updateProcessingStatus can fail, which it logs and swallows.  *)
(***************************************************************************)
\* A processNextPDF invocation that has just shifted pdfId from the queue
\* and waits for updateProcessingStatus(pdfId, 'processing').
NewDrain(p) == [pdfId |-> p, pc |-> "marking", generated |-> "none"]

\* isProcessing after `isProcessing = true`, and a variant that leaves it.
FlagOnTakeKept(flag) == flag
FlagOnTake(flag) == TRUE

\* isProcessing after `isProcessing = false`, and a variant that leaves it.
FlagOnEmptyKept(flag) == flag
FlagOnEmpty(flag) == FALSE

\* The synchronous part of processNextPDF() up to its first await, called
\* with the queue `queue` while the invocations `rest` wait at their awaits.
ProcessNextPDF(queue, rest) ==
    IF Len(queue) = 0
    THEN /\ isProcessing' = FlagOnEmpty(isProcessing)
         /\ processingQueue' = queue
         /\ drains' = rest
         /\ taken' = taken
    ELSE /\ isProcessing' = FlagOnTake(isProcessing)
         /\ processingQueue' = Tail(queue)
         /\ drains' = Append(rest, NewDrain(Head(queue)))
         /\ taken' = Append(taken, Head(queue))

QueuePDFForProcessing(p) ==
    /\ Len(accepted) < MaxJobs
    /\ IF \E k \in 1 .. Len(processingQueue) : processingQueue[k] = p
       THEN UNCHANGED queueVars
       ELSE /\ accepted' = Append(accepted, p)
            /\ IF ~isProcessing
               THEN ProcessNextPDF(Append(processingQueue, p), drains)
               ELSE /\ processingQueue' = Append(processingQueue, p)
                    /\ UNCHANGED <<isProcessing, drains, taken>>
            /\ UNCHANGED <<pdfStatus, lost, finished>>

\* updateProcessingStatus(p, status): the row is updated, or the update
\* fails and the error is logged.
UpdateProcessingStatus(p, status, stored) ==
    /\ pdfStatus' = IF stored THEN [pdfStatus EXCEPT ![p] = status] ELSE pdfStatus
    /\ lost' = [lost EXCEPT ![p] = ~stored]

\* The sequence without its element w.
Without(seq, w) == SubSeq(seq, 1, w - 1) \o SubSeq(seq, w + 1, Len(seq))

\* The invocation drains[w] goes on from its await to pc.
Proceed(w, pc) ==
    /\ drains' = [drains EXCEPT ![w].pc = pc]
    /\ UNCHANGED <<processingQueue, isProcessing, taken, finished>>

\* await updateProcessingStatus(pdfId, 'processing') settles.
StatusMarked(w) ==
    /\ drains[w].pc = "marking"
    /\ \E stored \in BOOLEAN :
        UpdateProcessingStatus(drains[w].pdfId, "processing", stored)
    /\ Proceed(w, "fetching")
    /\ UNCHANGED accepted

\* await fetch(fileUrl) and response.blob() settle: the file is there, or
\* the response is not ok or the request fails.
Fetched(w) ==
    /\ drains[w].pc = "fetching"
    /\ \E ok \in BOOLEAN : Proceed(w, IF ok THEN "extracting" ELSE "failing")
    /\ UNCHANGED <<pdfStatus, lost, accepted>>

\* await extractTextFromPDF(file) settles: with text, or without any or
\* with an error.
Extracted(w) ==
    /\ drains[w].pc = "extracting"
    /\ \E ok \in BOOLEAN : Proceed(w, IF ok THEN "processing" ELSE "failing")
    /\ UNCHANGED <<pdfStatus, lost, accepted>>

\* await processPDFContent(pdfText, pdfId) settles.
Processed(w) ==
    /\ drains[w].pc = "processing"
    /\ \E ok \in BOOLEAN : Proceed(w, IF ok THEN "generating" ELSE "failing")
    /\ UNCHANGED <<pdfStatus, lost, accepted>>

\* await generateQuizQuestions(pdfText, pdfId, true, 50) settles: it
\* returns the quiz data or, from its catch block, the error object; the
\* value is not looked at.
Generated(w) ==
    /\ drains[w].pc = "generating"
    /\ \E outcome \in {"ok", "failed"} :
        drains' = [drains EXCEPT ![w].pc = "completing", ![w].generated = outcome]
    /\ UNCHANGED <<processingQueue, isProcessing, taken, finished>>
    /\ UNCHANGED <<pdfStatus, lost, accepted>>

\* await updateProcessingStatus(pdfId, 'complete') or, in the catch block,
\* updateProcessingStatus(pdfId, 'error', ...) settles; processNextPDF()
\* is called.
StatusSettled(w) ==
    /\ drains[w].pc \in {"completing", "failing"}
    /\ \E stored \in BOOLEAN :
        UpdateProcessingStatus(drains[w].pdfId,
            IF drains[w].pc = "completing" THEN "complete" ELSE "error", stored)
    /\ finished' = finished + 1
    /\ ProcessNextPDF(processingQueue, Without(drains, w))
    /\ UNCHANGED accepted

\* An await of some invocation settles.
DrainStep ==
    \E w \in 1 .. Len(drains) :
        \/ StatusMarked(w)
        \/ Fetched(w)
        \/ Extracted(w)
        \/ Processed(w)
        \/ Generated(w)
        \/ StatusSettled(w)

InitQueue ==
    /\ RotationStart(0, 1)
    /\ RetryIdle
    /\ QuizIdle
    /\ RaceIdle
    /\ GenIdle
    /\ PureIdle
    /\ QueueIdle

NextQueue ==
    \/ \E p \in PdfIds : QueuePDFForProcessing(p) /\ UNCHANGED OutsideQueue
    \/ DrainStep /\ UNCHANGED OutsideQueue

SpecQueue == InitQueue /\ [][NextQueue]_vars

\* Every await settles.
SpecQueueFair == SpecQueue /\ WF_vars(DrainStep /\ UNCHANGED OutsideQueue)

\* C26: at most one processNextPDF invocation is under way, so at most one
\* job is processed at a time, and isProcessing tells whether one is.
C26_OneDrainAtATime ==
    /\ Len(drains) <= 1
    /\ isProcessing <=> Len(drains) = 1

\* A document was queued while another was being processed.
C26_Witness ==
    /\ Len(drains) = 1
    /\ drains[1].pc = "generating"
    /\ Len(processingQueue) = 1
    /\ isProcessing

\* The jobs shifted from the queue are the first of those pushed, in the
\* order of the pushes.
TakenInOrder ==
    /\ Len(taken) <= Len(accepted)
    /\ \A k \in 1 .. Len(taken) : taken[k] = accepted[k]

\* No invocation is working on document p.
NotInProgress(p) == \A w \in 1 .. Len(drains) : drains[w].pdfId # p

\* With no invocation under way the queue is empty and the flag is down.
StoppedWhenEmpty ==
    Len(drains) = 0 => (~isProcessing /\ Len(processingQueue) = 0)

C30_CompleteOnlyAfterGeneration ==
    \A w \in 1 .. Len(drains) :
        /\ drains[w].pc = "completing" => drains[w].generated = "ok"
        /\ drains[w].generated = "failed" => drains[w].pc = "failing"

(***************************************************************************)
(* The rotation selector over whatever the browser holds under the         *)
(* document's key when it is called.                                       *)
(***************************************************************************)
InitStorage ==
    /\ \E n \in 1 .. MaxQuestions, c \in 1 .. MaxCount :
          /\ template = [n |-> n]
          /\ count = c
          /\ storageKind \in StorageKinds
          /\ IF storageKind = "list"
             THEN localStorage \in
                    {[present |-> FALSE, indices |-> {}]}
                    \cup {[present |-> TRUE, indices |-> used] :
                            used \in SUBSET AllIndices(n)}
             ELSE localStorage =
                    [present |-> storageKind # "unavailable", indices |-> {}]
    /\ quizResult = NoResult
    /\ served = NotServed
    /\ calls = 0
    /\ storeResult = NotStored
    /\ lastOp = "none"
    /\ RetryIdle
    /\ QuizIdle
    /\ RaceIdle
    /\ GenIdle
    /\ PureIdle
    /\ QueueIdle

NextStorage ==
    \/ GenerateQuizAll /\ KeepServed /\ UNCHANGED OutsideRotation
    \/ GenerateQuizRotation /\ KeepServed /\ UNCHANGED OutsideRotation
    \/ ResetQuizQuestionHistory /\ KeepServed /\ UNCHANGED OutsideRotation

SpecStorage == InitStorage /\ [][NextStorage]_vars

\* C27: whatever the entry of the document holds, and whether localStorage
\* is there or not, a call for an existing template returns a selection of
\* min(count, n) different questions of the template and does not throw.
C27_StorageNeverBreaksSelection ==
    lastOp = "generate" =>
        /\ quizResult.status = "ok"
        /\ Len(ServedBy(quizResult)) = Min(count, template.n)
        /\ Cardinality(Range(ServedBy(quizResult))) = Min(count, template.n)
        /\ Range(ServedBy(quizResult)) \subseteq AllIndices(template.n)

\* The indices of the template the call found unused, and the selection.
UnusedBefore == AllIndices(quizResult.templateSize) \ quizResult.previouslyUsed
Selection == Range(quizResult.templateSelectedIndices)

\* C28: a call that finds fewer than count unused indices either, with
\* fewer than count * 0.5 unused, starts over, so that the stored state
\* afterwards is exactly its selection of count indices, or selects every
\* unused index and count - unused different used ones.
C28_ShortfallResetsOrTopsUp ==
    (/\ lastOp = "generate"
     /\ quizResult.status = "ok"
     /\ quizResult.hasMetadata
     /\ Cardinality(UnusedBefore) < count)
    => /\ Len(quizResult.templateSelectedIndices) = count
       /\ Cardinality(Selection) = count
       /\ IF 2 * Cardinality(UnusedBefore) < count
          THEN storageKind = "unavailable"
                   \/ (localStorage.present /\ localStorage.indices = Selection)
          ELSE /\ UnusedBefore \subseteq Selection
               /\ (Selection \ UnusedBefore) \subseteq quizResult.previouslyUsed
               /\ Cardinality(Selection \ UnusedBefore)
                     = count - Cardinality(UnusedBefore)

\* A call found one index unused of the two it needed and topped up.
C28_Witness ==
    /\ lastOp = "generate"
    /\ quizResult.status = "ok"
    /\ quizResult.hasMetadata
    /\ count = 2
    /\ Cardinality(UnusedBefore) = 1
    /\ UnusedBefore \subseteq Selection

InitRotation ==
    /\ \E n \in 1 .. MaxQuestions, c \in 1 .. MaxCount : RotationStart(n, c)
    /\ RetryIdle
    /\ QuizIdle
    /\ RaceIdle
    /\ GenIdle
    /\ PureIdle
    /\ QueueIdle

NextRotation ==
    \/ GenerateQuizAll /\ RecordServed /\ UNCHANGED OutsideRotation
    \/ GenerateQuizRotation /\ RecordServed /\ UNCHANGED OutsideRotation
    \/ ResetQuizQuestionHistory /\ ForgetServed /\ UNCHANGED OutsideRotation

\* The rotation selector over one unchanging template.
SpecRotation == InitRotation /\ [][NextRotation]_vars


Init ==
    /\ \E c \in 1 .. MaxCount : RotationStart(0, c)
    /\ RetryIdle
    /\ QuizIdle
    /\ RaceIdle
    /\ GenIdle
    /\ PureIdle
    /\ QueueIdle

Next ==
    \/ StoreQuizTemplate /\ KeepServed /\ UNCHANGED OutsideRotation
    \/ GenerateQuizNoTemplate /\ KeepServed /\ UNCHANGED OutsideRotation
    \/ GenerateQuizAll /\ KeepServed /\ UNCHANGED OutsideRotation
    \/ GenerateQuizRotation /\ KeepServed /\ UNCHANGED OutsideRotation
    \/ ResetQuizQuestionHistory /\ KeepServed /\ UNCHANGED OutsideRotation

\* The template store together with the rotation selector: the template of
\* the document may be regenerated between quiz attempts.
Spec == Init /\ [][Next]_vars


(***************************************************************************)
(* Claims about the rotation selector.                                     *)
(***************************************************************************)
Distinct(s) == \A a, b \in 1 .. Len(s) : a # b => s[a] # s[b]

\* C1: for a template larger than count, in every rotation state reached by
\* earlier select and reset calls, generateQuizFromTemplate returns exactly
\* count template indices (metadata.templateSelectedIndices), pairwise
\* distinct and each inside [0, questions.length).
C1_SelectsCountDistinctInRange ==
    (quizResult.status # "none" /\ template.n > count) =>
        /\ quizResult.status = "ok"
        /\ quizResult.hasMetadata
        /\ Len(quizResult.templateSelectedIndices) = count
        /\ Distinct(quizResult.templateSelectedIndices)
        /\ Range(quizResult.templateSelectedIndices) \subseteq AllIndices(template.n)

\* A selection that topped the unused indices up with used ones.
C1_Witness ==
    /\ template.n > count
    /\ quizResult.status = "ok"
    /\ quizResult.branch = "topup"
    /\ Len(quizResult.templateSelectedIndices) = count

ServedSet == {i \in AllIndices(template.n) : served[i] >= 1}

AllServed == ServedSet = AllIndices(template.n)

\* C2 as stated: with a template larger than count, no index is served a
\* third time (repeated twice) while some other index has never been served.
C2_CoveredBeforeSecondRepeat ==
    template.n > count =>
        ((\E i \in AllIndices(template.n) : served[i] >= 3) => AllServed)

\* The template sizes for which the selector never clears its history while
\* unserved indices remain: the remainder of n by count is 0 or at least count/2.
RemainderKept ==
    \/ template.n % count = 0
    \/ 2 * (template.n % count) >= count

\* C2 as amended: for a template larger than count whose size leaves a
\* remainder (n mod count) that is 0 or at least count/2, k select calls serve
\* at least min(n, k * count) different indices (so ceil(n / count) calls
\* cover the index range), and no index is served a third time before every
\* index has been served.
C2_CoveredWhenRemainderKept ==
    (template.n > count /\ RemainderKept) =>
        /\ C2_CoveredBeforeSecondRepeat
        /\ Cardinality(ServedSet) >= Min(template.n, calls * count)

\* Every index has been served and one of them three times.
C2_Witness ==
    /\ template.n > count
    /\ RemainderKept
    /\ template.n % count # 0
    /\ AllServed
    /\ \E i \in AllIndices(template.n) : served[i] >= 3

\* C3: when the template is larger than count and at least count indices are
\* absent from the stored state, the selection holds no stored index, and the
\* state stored afterwards is the union of the previous state and the selection.
C3_FreshSelectionAndUnion ==
    (/\ lastOp = "generate"
     /\ template.n > count
     /\ Cardinality(AllIndices(template.n) \ quizResult.previouslyUsed) >= count)
    => /\ quizResult.status = "ok"
       /\ Range(quizResult.templateSelectedIndices) \cap quizResult.previouslyUsed = {}
       /\ localStorage.present
       /\ localStorage.indices =
              quizResult.previouslyUsed \cup Range(quizResult.templateSelectedIndices)

\* A second selection that found a non-empty stored state and still had
\* count unused indices.
C3_Witness ==
    /\ lastOp = "generate"
    /\ template.n > count
    /\ quizResult.status = "ok"
    /\ quizResult.branch = "fresh"
    /\ quizResult.previouslyUsed # {}
    /\ localStorage.present
    /\ Cardinality(localStorage.indices) = 2 * count

\* C4: the rotation state stored for the document only holds indices of the
\* current template.
C4_StoredIndicesWithinTemplate ==
    localStorage.present => localStorage.indices \subseteq AllIndices(template.n)

\* C5: for a template with at most count questions the selector returns all
\* questions in template order with selectedIndices = [0, 1, ..., n-1].
C5_AllQuestionsInOrder ==
    (quizResult.status # "none" /\ template.n <= count) =>
        /\ quizResult.status = "ok"
        /\ quizResult.selectedIndices = [k \in 1 .. template.n |-> k - 1]
        /\ Len(quizResult.questions) = template.n
        /\ \A k \in 1 .. template.n : quizResult.questions[k].qid = k - 1

\* A template of at least two questions returned whole.
C5_Witness ==
    /\ template.n >= 2
    /\ template.n <= count
    /\ quizResult.status = "ok"
    /\ Len(quizResult.questions) = template.n

=============================================================================
